---- MODULE Spec2Model ----
(***************************************************************************)
(* The event-driven backtest engine: the time-aligned data feed            *)
(* (data.py, EODDataHandler), the fill event (event.py, FillEvent) and the *)
(* portfolio ledger (portfolio.py, Portfolio).                             *)
(*                                                                         *)
(* Numbers.  Python floats are held as records [nan, v]: nan marks the     *)
(* IEEE NaN that pandas puts where a reindexed row has no value, and v is  *)
(* the amount in thousandths (Scale), so that 0.001 * fillPrice * quantity *)
(* is exact for whole-unit prices.  Arithmetic propagates NaN; the Python  *)
(* comparison == is FEq, which is false as soon as one side is NaN.        *)
(***************************************************************************)
EXTENDS Integers, Sequences, FiniteSets

VARIABLES
    rawData,          \* DataSource.getEodData(s, ...): the native timestamps of s
    allData,          \* EODDataHandler.allData: the aligned rows of each symbol
    cursor,           \* rows already drawn from the iterrows() iterator of each symbol
    latestData,       \* EODDataHandler.latestData: the revealed bars of each symbol
    continueBacktest, \* EODDataHandler.continueBacktest
    eventQueue,       \* the shared event queue (a deque)
    positions,        \* Portfolio.positions: the retained history, one row per snapshot
    currentPosition,  \* Portfolio.currentPosition
    applied,          \* per symbol, the signed quantity of the fills applied so far
    calls,            \* calls made so far, and how many of them returned normally
    last,             \* the last call: its arguments, its outcome and the state before it
    returns,          \* performance.py: the return series handed to the evaluator
    ratio             \* performance.py: what sharpeRatio(returns) gave

vars == <<rawData, allData, cursor, latestData, continueBacktest, eventQueue,
          positions, currentPosition, applied, calls, last, returns, ratio>>

----------------------------------------------------------------------------
(* Bounds of the model *)

MaxTime == 2          \* timestamps 1..MaxTime may carry a native bar
MaxFill == 1          \* updatePositionsFromFill calls in a run
MaxReturns == 4       \* length of the return series given to the evaluator

(* Program constants *)

Scale == 1000             \* thousandths: the 0.001 of defaultCommission
InitialCapital == 10000   \* Portfolio.__init__, initialCapital=10000.0
MinCommission == 10       \* defaultCommission, max(10, ...)
StartDate == 1            \* startDate given to the feed and the portfolio

universe == <<"A", "B">>
Symbols == {universe[i] : i \in 1..Len(universe)}
Timestamps == StartDate..(StartDate + MaxTime - 1)
MaxAdvance == MaxTime + 2  \* updateBars calls in a run: two past the longest series

----------------------------------------------------------------------------
(* Floats *)

NaN == [nan |-> TRUE, v |-> 0]
Num(x) == [nan |-> FALSE, v |-> x * Scale]
IsNaN(a) == a.nan
FAdd(a, b) == IF a.nan \/ b.nan THEN NaN ELSE [nan |-> FALSE, v |-> a.v + b.v]
FSub(a, b) == IF a.nan \/ b.nan THEN NaN ELSE [nan |-> FALSE, v |-> a.v - b.v]
\* int * float
FMul(n, a) == IF a.nan THEN NaN ELSE [nan |-> FALSE, v |-> n * a.v]
\* Python ==
FEq(a, b) == ~a.nan /\ ~b.nan /\ a.v = b.v

Max(a, b) == IF a >= b THEN a ELSE b

\* an optional argument: None, or a number
None == [none |-> TRUE, v |-> 0]
Some(x) == [none |-> FALSE, v |-> x * Scale]
\* Python truthiness of an optional number: None, 0 and 0.0 are false
Truthy(c) == ~c.none /\ c.v # 0

----------------------------------------------------------------------------
(* event.py: the fill event *)

\* max(10, 0.001 * self.fillPrice * self.quantity); the division is exact, the
\* price being a whole number of units
defaultCommission(fillPrice, quantity) ==
    LET notional == (fillPrice.v * quantity) \div Scale
    IN  [nan |-> FALSE, v |-> Max(MinCommission * Scale, notional)]

\* FillEvent.__init__; timestamp and exchange are stored and never read
FillEvent(symbol, quantity, direction, fillPrice, commission) ==
    [type |-> "FILL", symbol |-> symbol, quantity |-> quantity, direction |-> direction,
     fillPrice |-> Num(fillPrice),
     commission |-> IF Truthy(commission) THEN [nan |-> FALSE, v |-> commission.v]
                    ELSE defaultCommission(Num(fillPrice), quantity)]

----------------------------------------------------------------------------
(* data.py: the feed *)

\* the adjusted close of the native bar of s dated t (the data repository's content)
NativeClose(s, t) == IF s = universe[1] THEN Num(100 + 5 * (t - StartDate + 1))
                     ELSE Num(60 - 5 * (t - StartDate + 1))

\* combinedIndex: the union of the native indexes, in increasing order
CombinedIndex(raw) ==
    LET U == UNION {raw[s] : s \in Symbols}
    IN  [i \in 1..Cardinality(U) |->
            CHOOSE t \in U : Cardinality({u \in U : u < t}) = i - 1]

\* a reindex that fills a leading gap from the first native bar after it
PadBackward(raw, s, t) ==
    LET prior == {u \in raw[s] : u <= t}
    IN  IF prior = {}
        THEN NativeClose(s, CHOOSE u \in raw[s] : \A w \in raw[s] : u <= w)
        ELSE NativeClose(s, CHOOSE u \in prior : \A w \in prior : w <= u)

\* reindex(method='pad') at t: the native bar with the greatest timestamp <= t,
\* NaN where there is none
Pad(raw, s, t) ==
    LET prior == {u \in raw[s] : u <= t}
    IN  IF prior = {} THEN NaN
        ELSE NativeClose(s, CHOOSE u \in prior : \A w \in prior : w <= u)

\* a feed that keeps each symbol on its native index (no reindex)
ReindexNative(raw, s) ==
    LET idx == CombinedIndex([u \in Symbols |-> raw[s]])
    IN  [i \in 1..Len(idx) |-> <<idx[i], [adj_close |-> NativeClose(s, idx[i])]>>]

\* a row of iterrows(): (index, row)
Reindex(raw, s) ==
    LET idx == CombinedIndex(raw)
    IN  [i \in 1..Len(idx) |-> <<idx[i], [adj_close |-> Pad(raw, s, idx[i])]>>]

MarketEvent == [type |-> "MARKET"]

\* next(self.getNewSymbolBar(s)) raises StopIteration
Exhausted(s) == cursor[s] >= Len(allData[s])

\* a feed that hands out the last row of the series instead of the next one
NextBarAhead(s) == allData[s][Len(allData[s])]

\* next(self.getNewSymbolBar(s)): the next row of the one iterator of s
NextBar(s) == allData[s][cursor[s] + 1]

getLatestBar(symbol) == latestData[symbol][Len(latestData[symbol])]
getLatestBarDatetime(symbol) == getLatestBar(symbol)[1]
getLatestBarValue(symbol, columnName) == getLatestBar(symbol)[2][columnName]
\* latestData[symbol][-N:]; -0 is 0, so N = 0 is the whole list
getLatestBars(symbol, N) ==
    LET m == Len(latestData[symbol])
    IN  IF N = 0 \/ N >= m THEN latestData[symbol]
        ELSE SubSeq(latestData[symbol], m - N + 1, m)

NoFill == [type |-> "NONE", symbol |-> "", quantity |-> 0, direction |-> "",
           fillPrice |-> Num(0), commission |-> Num(0)]

Before == [positions |-> positions, currentPosition |-> currentPosition,
           queued |-> Len(eventQueue), revealed |-> [s \in Symbols |-> Len(latestData[s])]]

\* np.array([i[1][columnName] for i in self.getLatestBars(symbol, N=N)])
getLatestBarsValues(symbol, columnName, N) ==
    LET bars == getLatestBars(symbol, N)
    IN  [i \in 1..Len(bars) |-> bars[i][2][columnName]]

\* the symbols a strategy may ask the feed about
ReadSymbols == Symbols \cup {"C"}

\* what self.latestData[symbol][-1] raises: latestData has one key per universe
\* symbol, and [-1] of an empty list is out of range
getLatestBarRaises(symbol) ==
    IF symbol \notin Symbols THEN "KeyError"
    ELSE IF latestData[symbol] = <<>> THEN "IndexError"
    ELSE "none"

\* what self.latestData[symbol][-N:] raises: a slice is never out of range
getLatestBarsRaises(symbol, N) ==
    IF symbol \notin Symbols THEN "KeyError" ELSE "none"

\* a feed that swallows StopIteration and leaves continueBacktest as it is
UpdateBarsKeepGoing ==
    /\ Len(eventQueue) < MaxAdvance
    /\ latestData' = [s \in Symbols |->
            IF Exhausted(s) THEN latestData[s]
            ELSE Append(latestData[s], NextBar(s))]
    /\ cursor' = [s \in Symbols |-> IF Exhausted(s) THEN cursor[s] ELSE cursor[s] + 1]
    /\ continueBacktest' = continueBacktest
    /\ eventQueue' = Append(eventQueue, MarketEvent)
    /\ calls' = [calls EXCEPT !.bars = IF \E s \in Symbols : Exhausted(s) THEN @ ELSE @ + 1]
    /\ last' = [op |-> "updateBars", err |-> "none", fill |-> NoFill, arg |-> None,
                pre |-> Before, exhausted |-> \E s \in Symbols : Exhausted(s)]
    /\ UNCHANGED <<rawData, allData, positions, currentPosition, applied, returns, ratio>>

UpdateBars ==
    /\ Len(eventQueue) < MaxAdvance
    /\ latestData' = [s \in Symbols |->
            IF Exhausted(s) THEN latestData[s]
            ELSE Append(latestData[s], NextBar(s))]
    /\ cursor' = [s \in Symbols |-> IF Exhausted(s) THEN cursor[s] ELSE cursor[s] + 1]
    /\ continueBacktest' = IF \E s \in Symbols : Exhausted(s) THEN FALSE
                           ELSE continueBacktest
    /\ eventQueue' = Append(eventQueue, MarketEvent)
    /\ calls' = [calls EXCEPT !.bars = IF \E s \in Symbols : Exhausted(s) THEN @ ELSE @ + 1]
    /\ last' = [op |-> "updateBars", err |-> "none", fill |-> NoFill, arg |-> None,
                pre |-> Before, exhausted |-> \E s \in Symbols : Exhausted(s)]
    /\ UNCHANGED <<rawData, allData, positions, currentPosition, applied, returns, ratio>>

----------------------------------------------------------------------------
(* portfolio.py: the ledger *)

\* no performance figure has been asked for
NotEvaluated == [err |-> "none", value |-> "none"]

InitialRow ==
    [datetime |-> StartDate, cash |-> Num(InitialCapital), total |-> Num(InitialCapital),
     sym |-> [s \in Symbols |-> [pos |-> 1, val |-> Num(0)]]]

\* the feed and the ledger right after their constructors have run
Constructed ==
    /\ allData = [s \in Symbols |-> Reindex(rawData, s)]
    /\ cursor = [s \in Symbols |-> 0]
    /\ latestData = [s \in Symbols |-> <<>>]
    /\ continueBacktest = TRUE
    /\ eventQueue = <<>>
    /\ positions = <<InitialRow>>
    /\ currentPosition = InitialRow
    /\ applied = [s \in Symbols |-> 0]
    /\ calls = [bars |-> 0, market |-> 0, marketDone |-> 0, fill |-> 0, fillDone |-> 0]
    /\ last = [op |-> "init", err |-> "none", fill |-> NoFill, arg |-> None,
               pre |-> Before, exhausted |-> FALSE]

Init ==
    \* every symbol has at least one native bar in the date range
    /\ rawData \in [Symbols -> (SUBSET Timestamps) \ {{}}]
    /\ Constructed
    /\ returns = <<>>
    /\ ratio = NotEvaluated

\* the dicts of currentPosition are the dicts of the last row of positions
\* (iloc[-1] copies the row, not the objects in it): a write to pos or val
\* through currentPosition is a write to that row
Shared(hist, cur) == [hist EXCEPT ![Len(hist)].sym = cur.sym]

\* a ledger that carries every val forward instead of marking it to market
UpdateTimeindexResultStale ==
    IF \E s \in Symbols : latestData[s] = <<>>
    THEN [err |-> "IndexError", positions |-> positions, cur |-> currentPosition]
    ELSE LET newPosition == [currentPosition EXCEPT
                                !.datetime = getLatestBarDatetime(universe[1])]
         IN  [err |-> "none", positions |-> Append(positions, newPosition),
              cur |-> newPosition]

UpdateTimeindexResult ==
    \* latestData[symbol][-1] of an empty list, at line 39 or at line 48: the new
    \* row is still a local
    IF \E s \in Symbols : latestData[s] = <<>>
    THEN [err |-> "IndexError", positions |-> positions, cur |-> currentPosition]
    ELSE LET timestamp == getLatestBarDatetime(universe[1])
             cash == currentPosition.cash
             sym == [s \in Symbols |->
                        [pos |-> currentPosition.sym[s].pos,
                         val |-> FMul(currentPosition.sym[s].pos,
                                      getLatestBarValue(s, "adj_close"))]]
             Total[i \in 0..Len(universe)] ==
                 IF i = 0 THEN cash ELSE FAdd(Total[i - 1], sym[universe[i]].val)
             newPosition == [datetime |-> timestamp, cash |-> cash,
                             total |-> Total[Len(universe)], sym |-> sym]
         IN  [err |-> "none", positions |-> Append(positions, newPosition),
              cur |-> newPosition]

UpdateTimeindex ==
    \* triggered whenever a MarketEvent is generated: one call per event queued
    /\ calls.market < Len(eventQueue)
    /\ LET r == UpdateTimeindexResult
       IN  /\ positions' = r.positions
           /\ currentPosition' = r.cur
           /\ last' = [op |-> "updateTimeindex", err |-> r.err, fill |-> NoFill,
                       arg |-> None, pre |-> Before, exhausted |-> FALSE]
    /\ calls' = [calls EXCEPT !.market = @ + 1,
                              !.marketDone = IF UpdateTimeindexResult.err = "none"
                                             THEN @ + 1 ELSE @]
    /\ UNCHANGED <<rawData, allData, cursor, latestData, continueBacktest, eventQueue,
                   applied, returns, ratio>>

FillDir(direction) ==
    IF direction = "SELL" THEN -1 ELSE IF direction = "BUY" THEN 1 ELSE 0

\* currentPosition[symbol]['pos'] for a symbol outside the universe: the row has
\* no such label, or the label is cash or total and the number under it has no
\* ['pos']
LookupError(symbol) ==
    IF symbol \in {"cash", "total"} THEN "TypeError" ELSE "KeyError"

\* a ledger that books the cash before it looks the symbol up
updatePositionsFromFillCashFirst(fill) ==
    LET fillDir == FillDir(fill.direction)
        s == fill.symbol
        cashDelta == FAdd(FMul(fill.quantity * fillDir, fill.fillPrice), fill.commission)
        c0 == [currentPosition EXCEPT !.cash = FSub(@, cashDelta)]
    IN  IF s \notin Symbols
        THEN [err |-> LookupError(s), cur |-> c0]
        ELSE
        LET c1 == [c0 EXCEPT !.sym[s].pos = @ + fill.quantity * fillDir]
        IN  IF latestData[s] = <<>>
            THEN [err |-> "IndexError", cur |-> c1]
            ELSE
            LET valueDelta == FMul(fill.quantity * fillDir,
                                   getLatestBarValue(s, "adj_close"))
            IN  [err |-> "none",
                 cur |-> [c1 EXCEPT !.sym[s].val = FAdd(@, valueDelta),
                                    !.total = FSub(@, FSub(cashDelta, valueDelta))]]

\* a ledger that values the filled quantity at the fill price
updatePositionsFromFillAtFillPrice(fill) ==
    LET fillDir == FillDir(fill.direction)
        s == fill.symbol
    IN  IF s \notin Symbols
        THEN [err |-> LookupError(s), cur |-> currentPosition]
        ELSE
        LET c1 == [currentPosition EXCEPT !.sym[s].pos = @ + fill.quantity * fillDir]
        IN  IF latestData[s] = <<>>
            THEN [err |-> "IndexError", cur |-> c1]
            ELSE
            LET valueDelta == FMul(fill.quantity * fillDir, fill.fillPrice)
                c2 == [c1 EXCEPT !.sym[s].val = FAdd(@, valueDelta)]
                cashDelta == FAdd(FMul(fill.quantity * fillDir, fill.fillPrice),
                                  fill.commission)
            IN  [err |-> "none",
                 cur |-> [c2 EXCEPT !.cash = FSub(@, cashDelta),
                                    !.total = FSub(@, FSub(cashDelta, valueDelta))]]

\* a ledger that books the fill without its commission
updatePositionsFromFillNoCommission(fill) ==
    LET fillDir == FillDir(fill.direction)
        s == fill.symbol
    IN  IF s \notin Symbols
        THEN [err |-> LookupError(s), cur |-> currentPosition]
        ELSE
        LET c1 == [currentPosition EXCEPT !.sym[s].pos = @ + fill.quantity * fillDir]
        IN  IF latestData[s] = <<>>
            THEN [err |-> "IndexError", cur |-> c1]
            ELSE
            LET valueDelta == FMul(fill.quantity * fillDir,
                                   getLatestBarValue(s, "adj_close"))
                c2 == [c1 EXCEPT !.sym[s].val = FAdd(@, valueDelta)]
                cashDelta == FMul(fill.quantity * fillDir, fill.fillPrice)
            IN  [err |-> "none",
                 cur |-> [c2 EXCEPT !.cash = FSub(@, cashDelta),
                                    !.total = FSub(@, FSub(cashDelta, valueDelta))]]

updatePositionsFromFill(fill) ==
    LET fillDir == FillDir(fill.direction)
        s == fill.symbol
    IN  IF s \notin Symbols
        THEN [err |-> LookupError(s), cur |-> currentPosition]
        ELSE
        LET c1 == [currentPosition EXCEPT !.sym[s].pos = @ + fill.quantity * fillDir]
        IN  IF latestData[s] = <<>>
            THEN [err |-> "IndexError", cur |-> c1]
            ELSE
            LET valueDelta == FMul(fill.quantity * fillDir,
                                   getLatestBarValue(s, "adj_close"))
                c2 == [c1 EXCEPT !.sym[s].val = FAdd(@, valueDelta)]
                cashDelta == FAdd(FMul(fill.quantity * fillDir, fill.fillPrice),
                                  fill.commission)
            IN  [err |-> "none",
                 cur |-> [c2 EXCEPT !.cash = FSub(@, cashDelta),
                                    !.total = FSub(@, FSub(cashDelta, valueDelta))]]

\* the fills the execution layer may hand to the ledger
FillSymbols == Symbols \cup {"C", "cash"}
FillQuantities == {-10, 0, 10}
FillDirections == {"BUY", "SELL", "HOLD"}
FillPrices == {0, 100, 105}
CommissionArgs == {None, Some(0), Some(20)}

Sign(direction) == CASE direction = "BUY" -> 1 [] direction = "SELL" -> -1 [] OTHER -> 0

Fill(symbol, quantity, direction, fillPrice, commission) ==
    /\ calls.fill < MaxFill
    /\ LET fill == FillEvent(symbol, quantity, direction, fillPrice, commission)
           r == updatePositionsFromFill(fill)
       IN  /\ currentPosition' = r.cur
           /\ positions' = Shared(positions, r.cur)
           /\ applied' = IF r.err = "none"
                         THEN [applied EXCEPT ![symbol] = @ + quantity * Sign(direction)]
                         ELSE applied
           /\ last' = [op |-> "updatePositionsFromFill", err |-> r.err, fill |-> fill,
                       arg |-> commission, pre |-> Before, exhausted |-> FALSE]
    /\ calls' = [calls EXCEPT
            !.fill = @ + 1,
            !.fillDone =
                IF updatePositionsFromFill(
                       FillEvent(symbol, quantity, direction, fillPrice, commission)).err
                   = "none"
                THEN @ + 1 ELSE @]
    /\ UNCHANGED <<rawData, allData, cursor, latestData, continueBacktest, eventQueue,
                   returns, ratio>>

Next ==
    \/ UpdateBars
    \/ UpdateTimeindex
    \/ \E symbol \in FillSymbols, quantity \in FillQuantities,
          direction \in FillDirections, fillPrice \in FillPrices,
          commission \in CommissionArgs :
            Fill(symbol, quantity, direction, fillPrice, commission)

Spec == Init /\ [][Next]_vars

\* the feed and the mark-to-market alone: no fill arrives
NextFeed == UpdateBars \/ UpdateTimeindex

SpecFeed == Init /\ [][NextFeed]_vars

\* the feed called again and again: updateBars is not put off for ever
SpecFeedLive == SpecFeed /\ WF_vars(UpdateBars)

----------------------------------------------------------------------------
(* The simulation loop: advance the feed by one aligned timestamp, test for   *)
(* the end of the data, then drain the queue, oldest event first.  A Market   *)
(* event goes to updateTimeindex; the strategy and the execution layer, which *)
(* see the new bar with it, may put fills behind it; a Fill event goes to     *)
(* updatePositionsFromFill.  An exception ends the run.                       *)

\* the fills the execution layer may queue in one step; it leaves the
\* commission to the event
EmittedFills ==
    {<<>>} \cup
    {<<FillEvent(symbol, quantity, direction, fillPrice, None)>> :
        symbol \in FillSymbols, quantity \in FillQuantities,
        direction \in FillDirections, fillPrice \in FillPrices}

Running == continueBacktest /\ last.err = "none"

LoopAdvance ==
    /\ Running
    /\ eventQueue = <<>>
    /\ UpdateBars

LoopMarket(emitted) ==
    /\ Running
    /\ eventQueue # <<>> /\ Head(eventQueue).type = "MARKET"
    /\ calls.fill + Len(emitted) <= MaxFill
    /\ LET r == UpdateTimeindexResult
       IN  /\ positions' = r.positions
           /\ currentPosition' = r.cur
           /\ last' = [op |-> "updateTimeindex", err |-> r.err, fill |-> NoFill,
                       arg |-> None, pre |-> Before, exhausted |-> FALSE]
           /\ calls' = [calls EXCEPT !.market = @ + 1,
                                     !.marketDone = IF r.err = "none" THEN @ + 1 ELSE @]
           /\ eventQueue' = IF r.err = "none" THEN Tail(eventQueue) \o emitted
                            ELSE Tail(eventQueue)
    /\ UNCHANGED <<rawData, allData, cursor, latestData, continueBacktest, applied,
                   returns, ratio>>

LoopFill ==
    /\ Running
    /\ eventQueue # <<>> /\ Head(eventQueue).type = "FILL"
    /\ LET fill == Head(eventQueue)
           r == updatePositionsFromFill(fill)
       IN  /\ currentPosition' = r.cur
           /\ positions' = Shared(positions, r.cur)
           /\ applied' = IF r.err = "none" /\ fill.symbol \in Symbols
                         THEN [applied EXCEPT
                                  ![fill.symbol] = @ + fill.quantity * Sign(fill.direction)]
                         ELSE applied
           /\ last' = [op |-> "updatePositionsFromFill", err |-> r.err, fill |-> fill,
                       arg |-> None, pre |-> Before, exhausted |-> FALSE]
           /\ calls' = [calls EXCEPT !.fill = @ + 1,
                                     !.fillDone = IF r.err = "none" THEN @ + 1 ELSE @]
    /\ eventQueue' = Tail(eventQueue)
    /\ UNCHANGED <<rawData, allData, cursor, latestData, continueBacktest, returns, ratio>>

NextLoop ==
    \/ LoopAdvance
    \/ \E emitted \in EmittedFills : LoopMarket(emitted)
    \/ LoopFill

SpecLoop == Init /\ [][NextLoop]_vars

----------------------------------------------------------------------------
(* performance.py: the evaluator *)

(* A return is held in halves (1 is 0.5, that is 50%): binary floating point  *)
(* holds these exactly, so the sums, the mean and the products below are the  *)
(* ones numpy computes, and every return is above -100%, so the growth factor *)
(* is positive.  A float result is held as its class: "nan", "inf", "-inf",   *)
(* "pos", "zero" or "neg".                                                    *)
Unit == 2
ReturnValues == {-1, 0, 1}
ReturnSeries == UNION {[1..n -> ReturnValues] : n \in 0..MaxReturns}

Pow(b, n) == LET P[i \in 0..n] == IF i = 0 THEN 1 ELSE b * P[i - 1] IN P[n]

\* returns.add(1.0).product(), in units of Unit ^ len(returns)
Growth(r) ==
    LET G[i \in 0..Len(r)] == IF i = 0 THEN 1 ELSE G[i - 1] * (Unit + r[i])
    IN  G[Len(r)]

SumOf(r) == LET S[i \in 0..Len(r)] == IF i = 0 THEN 0 ELSE S[i - 1] + r[i] IN S[Len(r)]

SumOfSquares(r) ==
    LET S[i \in 0..Len(r)] == IF i = 0 THEN 0 ELSE S[i - 1] + r[i] * r[i] IN S[Len(r)]

\* returns.add(1.0).product() ** (periods / len(returns)) - 1.0: periods / 0
\* is a division of Python ints; a positive base keeps its side of 1 under a
\* positive power
CAGR(r) ==
    IF Len(r) = 0 THEN [err |-> "ZeroDivisionError", value |-> "none"]
    ELSE [err |-> "none",
          value |-> IF Growth(r) > Pow(Unit, Len(r)) THEN "pos"
                    ELSE IF Growth(r) = Pow(Unit, Len(r)) THEN "zero"
                    ELSE "neg"]

\* returns.std() * (periods ** 0.5): the sample deviation (ddof = 1) is NaN for
\* fewer than two returns, else zero exactly when n * sum(x^2) = sum(x)^2
annualVolatility(r) ==
    IF Len(r) < 2 THEN "nan"
    ELSE IF Len(r) * SumOfSquares(r) = SumOf(r) * SumOf(r) THEN "zero"
    ELSE "pos"

\* numpy float64 / float64: a zero divisor gives inf, -inf or nan and a
\* RuntimeWarning, never an exception
Divide(num, den) ==
    IF num = "nan" \/ den = "nan" THEN "nan"
    ELSE IF den = "zero"
         THEN (IF num = "pos" THEN "inf" ELSE IF num = "neg" THEN "-inf" ELSE "nan")
    ELSE num

\* (CAGR(returns, periods) - rfr) / annualVolatility(returns, periods), rfr = 0.0
sharpeRatio(r) ==
    IF CAGR(r).err # "none" THEN CAGR(r)
    ELSE [err |-> "none", value |-> Divide(CAGR(r).value, annualVolatility(r))]

EvaluateSharpe ==
    /\ ratio = NotEvaluated
    /\ ratio' = sharpeRatio(returns)
    /\ UNCHANGED <<rawData, allData, cursor, latestData, continueBacktest, eventQueue,
                   positions, currentPosition, applied, calls, last, returns>>

\* a completed return series is handed to the evaluator
InitPerf ==
    /\ rawData = [s \in Symbols |-> Timestamps]
    /\ Constructed
    /\ returns \in ReturnSeries
    /\ ratio = NotEvaluated

NextPerf == EvaluateSharpe

SpecPerf == InitPerf /\ [][NextPerf]_vars

----------------------------------------------------------------------------
(* Properties *)

\* cash + the val of every universe symbol, summed in universe order
CashPlusValues(row) ==
    LET S[i \in 0..Len(universe)] ==
            IF i = 0 THEN row.cash ELSE FAdd(S[i - 1], row.sym[universe[i]].val)
    IN  S[Len(universe)]

LedgerUnchanged ==
    /\ currentPosition = last.pre.currentPosition
    /\ positions = last.pre.positions

\* C1: in every reachable state the current position satisfies
\* total == cash + the sum over the universe of val.
C1_TotalIsCashPlusValues ==
    FEq(currentPosition.total, CashPlusValues(currentPosition))

\* C2: a call of updateBars made once a series is exhausted sets continueBacktest
\* to False and appends no Market event, so the Market events queued are as many
\* as the aligned timestamps revealed.
C2_NoMarketEventOnceExhausted ==
    /\ (last.op = "updateBars" /\ last.exhausted) =>
            (~continueBacktest /\ Len(eventQueue) = last.pre.queued)
    /\ Len(eventQueue) = calls.bars

\* C3: no look-ahead.  After k calls of updateBars that revealed a bar, k >= 1,
\* getLatestBar, getLatestBarDatetime and getLatestBarValue of every symbol give
\* row k of its aligned series, and getLatestBars(N) gives only rows of index <= k.
C3_NoLookAhead ==
    \A s \in Symbols :
        LET k == calls.bars
        IN  /\ Len(latestData[s]) = k
            /\ k >= 1 =>
                /\ k <= Len(allData[s])
                /\ getLatestBar(s) = allData[s][k]
                /\ getLatestBarDatetime(s) = allData[s][k][1]
                /\ getLatestBarValue(s, "adj_close") = allData[s][k][2].adj_close
                /\ \A N \in 0..MaxAdvance :
                    LET bars == getLatestBars(s, N)
                        values == getLatestBarsValues(s, "adj_close", N)
                    IN  /\ Len(values) = Len(bars)
                        /\ \A i \in 1..Len(bars) :
                            \E j \in 1..k : /\ bars[i] = allData[s][j]
                                            /\ values[i] = allData[s][j][2].adj_close

\* one bar revealed, one still to come
C3_Witness ==
    /\ last.op = "updateBars"
    /\ calls.bars = 1
    /\ \A s \in Symbols : Len(allData[s]) = 2 /\ getLatestBar(s) # allData[s][2]

InvalidFill(fill) == fill.quantity <= 0 \/ fill.fillPrice.v <= 0

\* C4: a fill whose quantity or fillPrice is zero or negative is rejected with an
\* error and leaves the ledger as it was.
C4_InvalidFillRejected ==
    (last.op = "updatePositionsFromFill" /\ InvalidFill(last.fill)) =>
        (last.err # "none" /\ LedgerUnchanged)

\* C5: a fill for a symbol outside the universe fails with an error, and nothing
\* of the ledger (cash, total, any pos or val, any retained row) has changed.
C5_UnknownSymbolAllOrNothing ==
    (last.op = "updatePositionsFromFill" /\ last.fill.symbol \notin Symbols) =>
        (last.err # "none" /\ LedgerUnchanged)

\* a costly fill for the unknown symbol has been refused after bars were revealed
C5_Witness ==
    /\ last.op = "updatePositionsFromFill"
    /\ last.fill.symbol \notin Symbols
    /\ last.fill.quantity > 0 /\ last.fill.fillPrice.v > 0 /\ last.fill.direction = "BUY"
    /\ last.err \in {"KeyError", "TypeError"}
    /\ \A s \in Symbols : latestData[s] # <<>>

\* C6: right after construction cash and total are the initial capital, every
\* symbol has quantity 0 and market value 0, and the history is one row stamped
\* with startDate.
C6_InitialLedger ==
    last.op = "init" =>
        /\ FEq(currentPosition.cash, Num(InitialCapital))
        /\ FEq(currentPosition.total, Num(InitialCapital))
        /\ \A s \in Symbols : /\ currentPosition.sym[s].pos = 0
                              /\ FEq(currentPosition.sym[s].val, Num(0))
        /\ Len(positions) = 1
        /\ positions[1].datetime = StartDate

\* C7: from a fresh portfolio every symbol's quantity is the signed sum of the
\* quantities of the fills applied to it (BUY +, SELL -).
C7_QuantityIsSumOfFills ==
    \A s \in Symbols : currentPosition.sym[s].pos = applied[s]

\* C8: every processed Market event and every processed Fill event appends one
\* row, so the history holds 1 + the number of processed events, and no call
\* changes a row that is already in the history.
C8_OneSnapshotPerEvent ==
    /\ Len(positions) = 1 + calls.marketDone + calls.fillDone
    /\ last.op # "init" =>
            /\ Len(positions) >= Len(last.pre.positions)
            /\ \A i \in 1..Len(last.pre.positions) : positions[i] = last.pre.positions[i]

\* C9: a FillEvent built with a commission c >= 0, 0 included, carries c; only
\* one built without a commission carries max(10, 0.001 * fillPrice * quantity).
C9_SuppliedCommissionKept ==
    last.op = "updatePositionsFromFill" =>
        IF last.arg.none
        THEN last.fill.commission
                = defaultCommission(last.fill.fillPrice, last.fill.quantity)
        ELSE last.fill.commission.v = last.arg.v

\* C10: every symbol's aligned series has the same length and the same strictly
\* increasing timestamps, and after any number of updateBars calls every symbol
\* has the same number of revealed bars and the same latest timestamp.
C10_AlignedAndAtomic ==
    \A s \in Symbols, u \in Symbols :
        /\ Len(allData[s]) = Len(allData[u])
        /\ \A i \in 1..Len(allData[s]) : allData[s][i][1] = allData[u][i][1]
        /\ \A i \in 1..Len(allData[s]), j \in 1..Len(allData[s]) :
                i < j => allData[s][i][1] < allData[s][j][1]
        /\ Len(latestData[s]) = Len(latestData[u])
        /\ latestData[s] # <<>> => getLatestBarDatetime(s) = getLatestBarDatetime(u)

\* two symbols with different native indexes, the second bar of the union revealed
C10_Witness ==
    /\ rawData[universe[1]] # {} /\ rawData[universe[2]] # {}
    /\ rawData[universe[1]] # rawData[universe[2]]
    /\ Cardinality(rawData[universe[1]]) # Cardinality(rawData[universe[2]])
    /\ last.op = "updateBars" /\ ~last.exhausted
    /\ \A s \in Symbols : Len(latestData[s]) = 2

\* C11: the read accessors raise an error for a symbol outside the universe,
\* getLatestBar, getLatestBarValue and getLatestBarDatetime raise with no bar
\* revealed, and getLatestBars and getLatestBarsValues raise when N is greater
\* than the number of bars revealed.
C11_AccessorsFailOutOfRange ==
    \A symbol \in ReadSymbols, N \in 0..MaxAdvance :
        LET m == IF symbol \in Symbols THEN Len(latestData[symbol]) ELSE 0
        IN  /\ symbol \notin Symbols =>
                    /\ getLatestBarRaises(symbol) # "none"
                    /\ getLatestBarsRaises(symbol, N) # "none"
            /\ (symbol \in Symbols /\ m = 0) => getLatestBarRaises(symbol) # "none"
            /\ (symbol \in Symbols /\ N > m) => getLatestBarsRaises(symbol, N) # "none"

\* the volatility of the series is zero: two returns or more, all equal
ZeroVolatility(r) == Len(r) >= 2 /\ \A i \in 1..Len(r) : r[i] = r[1]

\* C12: sharpeRatio of a return series of zero volatility signals an error; it
\* does not return NaN or an infinite value.
C12_ZeroVolatilityIsAnError ==
    (ratio # NotEvaluated /\ ZeroVolatility(returns)) =>
        (ratio.err # "none" /\ ratio.value \notin {"nan", "inf", "-inf"})

\* C13: a processed Market event leaves cash and every quantity as they were,
\* sets every symbol's val to pos * its latest adj_close and total to cash + the
\* sum of the vals (the float that sum gives, NaN where a price is NaN), and
\* appends that row stamped with the latest bar datetime, one for all symbols.
C13_MarketEventFrame ==
    (last.op = "updateTimeindex" /\ last.err = "none") =>
        /\ currentPosition.cash = last.pre.currentPosition.cash
        /\ \A s \in Symbols :
            /\ currentPosition.sym[s].pos = last.pre.currentPosition.sym[s].pos
            /\ currentPosition.sym[s].val
                    = FMul(currentPosition.sym[s].pos, getLatestBarValue(s, "adj_close"))
            /\ currentPosition.datetime = getLatestBarDatetime(s)
        /\ currentPosition.total = CashPlusValues(currentPosition)
        /\ positions = Append(last.pre.positions, currentPosition)

\* a Market event processed after a fill has moved a quantity and the cash
C13_Witness ==
    /\ last.op = "updateTimeindex" /\ last.err = "none"
    /\ calls.fillDone = 1
    /\ \E s \in Symbols : /\ currentPosition.sym[s].pos = 11
                          /\ ~IsNaN(currentPosition.sym[s].val)
                          /\ currentPosition.sym[s].val.v > 0
    /\ currentPosition.cash # Num(InitialCapital)
    /\ Len(positions) = 2

ValidFill(fill) ==
    /\ fill.symbol \in Symbols
    /\ fill.direction \in {"BUY", "SELL"}
    /\ fill.quantity > 0
    /\ fill.fillPrice.v > 0

\* C14: a valid fill of symbol s that the ledger has processed (sign +1 for BUY,
\* -1 for SELL) changes cash by -(sign * quantity * fillPrice + commission) and
\* total by sign * quantity * (latest adj_close of s - fillPrice) - commission,
\* and leaves the pos and val of every other symbol alone; at a fillPrice equal
\* to the latest adj_close total drops by the commission.
C14_FillDeltas ==
    (last.op = "updatePositionsFromFill" /\ last.err = "none" /\ ValidFill(last.fill)) =>
        LET fill == last.fill
            q == Sign(fill.direction) * fill.quantity
            close == getLatestBarValue(fill.symbol, "adj_close")
            pre == last.pre.currentPosition
        IN  /\ currentPosition.cash
                    = FSub(pre.cash, FAdd(FMul(q, fill.fillPrice), fill.commission))
            /\ currentPosition.total
                    = FSub(FAdd(pre.total, FMul(q, FSub(close, fill.fillPrice))),
                           fill.commission)
            /\ \A u \in Symbols \ {fill.symbol} : currentPosition.sym[u] = pre.sym[u]
            /\ FEq(fill.fillPrice, close) =>
                    currentPosition.total = FSub(pre.total, fill.commission)

\* a sale at the latest adjusted close, after a Market event has marked the book
C14_Witness ==
    /\ last.op = "updatePositionsFromFill" /\ last.err = "none"
    /\ ValidFill(last.fill) /\ last.fill.direction = "SELL"
    /\ FEq(last.fill.fillPrice, getLatestBarValue(last.fill.symbol, "adj_close"))
    /\ last.fill.commission.v > 0
    /\ calls.marketDone >= 1
    /\ FEq(currentPosition.total, FSub(last.pre.currentPosition.total, last.fill.commission))
    /\ ~FEq(currentPosition.cash, last.pre.currentPosition.cash)

\* C15: in the loop, whenever the queue is empty and a Market event has been
\* processed, every symbol's val is its pos times its latest revealed adj_close
\* (the float that product gives, NaN where the padded price is NaN): a fill
\* moves val with the quantity, at the last known price.
C15_ValueTracksQuantity ==
    (eventQueue = <<>> /\ calls.marketDone >= 1) =>
        \A s \in Symbols :
            currentPosition.sym[s].val
                = FMul(currentPosition.sym[s].pos, getLatestBarValue(s, "adj_close"))

\* the queue is drained after the Market event and a sale of the step
C15_Witness ==
    /\ eventQueue = <<>> /\ calls.marketDone >= 1
    /\ last.op = "updatePositionsFromFill" /\ last.err = "none"
    /\ ValidFill(last.fill) /\ last.fill.direction = "SELL"
    /\ currentPosition.sym[last.fill.symbol].pos = -9
    /\ ~IsNaN(currentPosition.sym[last.fill.symbol].val)
    /\ currentPosition.sym[last.fill.symbol].val.v < 0
\* C16: forward fill only.  The aligned series of every symbol runs over the
\* union of the native timestamps; its bar at t carries the values of the
\* symbol's native bar of the greatest timestamp <= t, carries no price (NaN)
\* where the symbol has no native bar at or before t, and never carries the
\* values of a native bar dated after t.
C16_ForwardFillOnly ==
    \A s \in Symbols :
        /\ {allData[s][i][1] : i \in 1..Len(allData[s])}
                = UNION {rawData[u] : u \in Symbols}
        /\ \A i \in 1..Len(allData[s]) :
            LET t == allData[s][i][1]
                close == allData[s][i][2].adj_close
                prior == {u \in rawData[s] : u <= t}
            IN  /\ prior # {} =>
                    \E u \in prior : /\ \A w \in prior : w <= u
                                     /\ close = NativeClose(s, u)
                /\ prior = {} => IsNaN(close)
                /\ \A u \in rawData[s] : u > t => close # NativeClose(s, u)

\* one symbol's bar is carried forward over a gap, the other's series starts
\* late, and both aligned bars have been revealed
C16_Witness ==
    /\ rawData[universe[1]] = {StartDate}
    /\ rawData[universe[2]] = {StartDate + 1}
    /\ \A s \in Symbols : Len(latestData[s]) = 2
    /\ getLatestBarValue(universe[1], "adj_close") = NativeClose(universe[1], StartDate)
    /\ IsNaN(latestData[universe[2]][1][2].adj_close)
    /\ getLatestBarValue(universe[2], "adj_close") = NativeClose(universe[2], StartDate + 1)
\* C17: updateBars called again and again eventually sets continueBacktest to
\* False; once False it never becomes True again; and no symbol ever has more
\* bars revealed than its aligned series is long.
C17_FeedTerminates ==
    /\ <>(~continueBacktest)
    /\ [][~continueBacktest => ~continueBacktest']_vars
    /\ [](\A s \in Symbols : Len(latestData[s]) <= Len(allData[s]))

\* the call that found the series exhausted, every aligned bar revealed
C17_Witness ==
    /\ last.op = "updateBars" /\ last.exhausted
    /\ ~continueBacktest
    /\ \A s \in Symbols : Len(allData[s]) = MaxTime /\ Len(latestData[s]) = MaxTime
\* C18: after construction and after every Market event and Fill the last row
\* of the retained history equals currentPosition in cash, total and every
\* symbol's pos and val, and total is cash + the sum of the vals in every
\* retained row.
C18_HistoryTailIsCurrent ==
    LET tail == positions[Len(positions)]
    IN  /\ tail.cash = currentPosition.cash
        /\ tail.total = currentPosition.total
        /\ \A s \in Symbols : tail.sym[s] = currentPosition.sym[s]
        /\ \A i \in 1..Len(positions) : positions[i].total = CashPlusValues(positions[i])
\* C19: for a symbol with m bars revealed and every N in 0..m, getLatestBars
\* returns exactly N bars, the N most recently revealed ones in the order they
\* were revealed, getLatestBarsValues returns the N values of those bars, and
\* for N >= 1 the last of them is getLatestBar.
C19_LatestBarsExactlyN ==
    \A s \in Symbols :
        LET m == Len(latestData[s])
        IN  \A N \in 0..m :
                LET bars == getLatestBars(s, N)
                    values == getLatestBarsValues(s, "adj_close", N)
                IN  /\ Len(bars) = N
                    /\ Len(values) = N
                    /\ \A i \in 1..Len(bars) :
                        /\ i <= N => bars[i] = latestData[s][m - N + i]
                        /\ i <= Len(values) => values[i] = bars[i][2].adj_close
                    /\ (N >= 1 /\ bars # <<>>) => bars[Len(bars)] = getLatestBar(s)
\* C20: a fill whose direction is neither BUY nor SELL leaves cash, total and
\* every symbol's pos and val as they were before updatePositionsFromFill.
C20_OtherDirectionNoChange ==
    (last.op = "updatePositionsFromFill" /\ last.fill.direction \notin {"BUY", "SELL"}) =>
        /\ currentPosition.cash = last.pre.currentPosition.cash
        /\ currentPosition.total = last.pre.currentPosition.total
        /\ \A s \in Symbols : currentPosition.sym[s] = last.pre.currentPosition.sym[s]
====
